---- MODULE Spec2Model ----
(***************************************************************************)
(* State-machine model of src/src/App.jsx: the client-side orchestration   *)
(* core of the natural-language query workspace (toasts, file upload,      *)
(* table registry, query runner and query history).                        *)
(*                                                                         *)
(* The browser runs handlers one at a time (single-threaded event loop),   *)
(* so each action below is one handler, one promise continuation or one    *)
(* timer callback, run to completion.  A handler that awaits a fetch is    *)
(* split at the await: the first half issues the request (a record in an   *)
(* in-flight sequence that keeps the values its closure captured), the     *)
(* second half is the continuation run when the response arrives.          *)
(***************************************************************************)
EXTENDS Integers, Sequences, FiniteSets, TLC

VARIABLES
    toasts,          \* useToasts: the rendered notification list (line 53)
    timers,          \* pending setTimeout callbacks of useToasts.add (line 58)
    nextId,          \* number of toast ids drawn so far, plus one (line 55)
    uploading,       \* FileUpload: uploading flag (line 99)
    progress,        \* FileUpload: progress percent (line 100)
    xhrs,            \* XMLHttpRequests sent and not yet settled (lines 115-144)
    tables,          \* App: cached table list (line 365)
    selectedTable,   \* App: selected table (line 366)
    selIsListed,     \* the selected object is an element of the current tables array
    schema,          \* App: cached schema (line 367)
    loadingTables,   \* App: loadingTables (line 368)
    loadingSchema,   \* App: loadingSchema (line 369)
    tableReqs,       \* GET /api/tables requests in flight, oldest first
    schemaReqs,      \* GET /api/tables/{id} requests in flight, oldest first
    deleteReqs,      \* DELETE /api/tables/{id} requests in flight, oldest first
    query,           \* App: text of the query box (line 371)
    running,         \* App: running flag (line 372)
    result,          \* App: current query result (line 373)
    history,         \* App: query history (line 375)
    storage,         \* localStorage item query_history (lines 376, 446, 504)
    queryReqs,       \* POST /api/query requests in flight, oldest first
    downloads,       \* Results: texts of the files exportCsv has made (line 282)
    ops              \* user operations performed so far, per panel

vars == <<toasts, timers, nextId, uploading, progress, xhrs, tables,
          selectedTable, selIsListed, schema, loadingTables, loadingSchema,
          tableReqs, schemaReqs, deleteReqs, query, running, result, history,
          storage, queryReqs, downloads, ops>>

toastVars == <<toasts, timers, nextId>>
uploadVars == <<uploading, progress, xhrs>>
tableVars == <<tables, selectedTable, selIsListed, schema, loadingTables,
               loadingSchema, tableReqs, schemaReqs, deleteReqs>>
queryVars == <<query, running, result, history, storage, queryReqs, downloads>>

(***************************************************************************)
(* Bounds of the model.                                                    *)
(***************************************************************************)
\* files handed to the upload box in one behaviour
MaxUploads == 2
\* clicks in the tables sidebar (refresh, select, delete) in one behaviour
MaxTableOps == 3
\* query requests sent in one behaviour
MaxRuns == 2
\* clock ticks that make up the toast lifetime
TicksPerTimeout == 3
\* largest byte total of an upload body
MaxTotal == 3
\* clicks on Export CSV in one behaviour
MaxExports == 1
\* operations of a session that goes through all the panels
MaxSessionOps == 1

(***************************************************************************)
(* Program constants.                                                      *)
(***************************************************************************)
\* setTimeout(() => remove(id), 6000)
ToastTimeoutMs == 6000
\* .slice(0, 10)
HistoryCap == 10

TickMs == ToastTimeoutMs \div TicksPerTimeout

RemoveAt(s, i) == SubSeq(s, 1, i - 1) \o SubSeq(s, i + 1, Len(s))

Range(s) == {s[i] : i \in DOMAIN s}

(***************************************************************************)
(* useToasts (lines 52-62).                                                *)
(***************************************************************************)
\* { id, type: 'success', ...toast }: type defaults to success
ToastType(toast) == IF "type" \in DOMAIN toast THEN toast.type ELSE "success"

MakeToast(id, toast) == [id |-> id, type |-> ToastType(toast), title |-> toast.title]

ToastIds == {toasts[i].id : i \in DOMAIN toasts}

\* the filter of line 60 with its test inverted
FilterOutId_Inverted(ts, id) == SelectSeq(ts, LAMBDA t : t.id = id)

\* prev.filter((t) => t.id !== id)
FilterOutId(ts, id) == SelectSeq(ts, LAMBDA t : t.id # id)

\* useToasts.add: append the toast and schedule its removal.  Math.random ids
\* are taken to be distinct; the model draws them from a counter.
AddToast(toast) ==
    /\ toasts' = Append(toasts, MakeToast(nextId, toast))
    /\ timers' = timers \cup {[id |-> nextId, age |-> 0]}
    /\ nextId' = nextId + 1

\* the Dismiss button of a rendered toast: remove(t.id)
Dismiss(id) ==
    /\ id \in ToastIds
    /\ toasts' = FilterOutId(toasts, id)
    /\ UNCHANGED <<timers, nextId, uploadVars, tableVars, queryVars, ops>>

\* the setTimeout callback, run once the delay has elapsed: remove(id)
TimerFire(id) ==
    /\ \E tm \in timers :
          /\ tm.id = id
          /\ tm.age * TickMs >= ToastTimeoutMs
          /\ timers' = timers \ {tm}
    /\ toasts' = FilterOutId(toasts, id)
    /\ UNCHANGED <<nextId, uploadVars, tableVars, queryVars, ops>>

\* time passes by one tick; a timer that is due runs before time moves on
Tick ==
    /\ timers # {}
    /\ \A tm \in timers : tm.age * TickMs < ToastTimeoutMs
    /\ timers' = {[id |-> tm.id, age |-> tm.age + 1] : tm \in timers}
    /\ UNCHANGED <<toasts, nextId, uploadVars, tableVars, queryVars, ops>>

(***************************************************************************)
(* TableRegistry, first half: refreshTables issues GET /api/tables          *)
(* (lines 386-389).  A request remembers who awaits it: by = "delete" is    *)
(* the call at line 420, whose caller resumes at line 421 with the table    *)
(* it deleted (tbl) and the selectedTable its closure captured (sel).       *)
(***************************************************************************)
Null == "null"

NoAwaiter == [by |-> "app", tbl |-> Null, sel |-> Null]

IssueRefresh(awaiter) ==
    /\ loadingTables' = TRUE
    /\ tableReqs' = Append(tableReqs, awaiter)

(***************************************************************************)
(* FileUpload (lines 97-145).                                              *)
(***************************************************************************)
\* String.prototype.toLowerCase on the letters file names are built from
LowerChar(c) ==
    CASE c = "C" -> "c"
      [] c = "S" -> "s"
      [] c = "V" -> "v"
      [] c = "X" -> "x"
      [] c = "L" -> "l"
      [] OTHER -> c

ToLowerCase(s) == [i \in 1..Len(s) |-> LowerChar(s[i])]

\* String.prototype.endsWith
EndsWith(s, suffix) ==
    /\ Len(s) >= Len(suffix)
    /\ SubSeq(s, Len(s) - Len(suffix) + 1, Len(s)) = suffix

\* line 106
allowed ==
    {"text/csv", "application/vnd.ms-excel",
     "application/vnd.openxmlformats-officedocument.spreadsheetml.sheet"}

\* the test of line 107 without toLowerCase
FileAccepted_CaseSensitive(file) ==
    \/ file.type \in allowed
    \/ EndsWith(file.name, <<".", "c", "s", "v">>)
    \/ EndsWith(file.name, <<".", "x", "l", "s", "x">>)
    \/ EndsWith(file.name, <<".", "x", "l", "s">>)

\* the negation of the test of line 107
FileAccepted(file) ==
    \/ file.type \in allowed
    \/ EndsWith(ToLowerCase(file.name), <<".", "c", "s", "v">>)
    \/ EndsWith(ToLowerCase(file.name), <<".", "x", "l", "s", "x">>)
    \/ EndsWith(ToLowerCase(file.name), <<".", "x", "l", "s">>)

\* files the user can hand over
Files ==
    {[type |-> "", name |-> <<"d", ".", "t", "x", "t">>],
     [type |-> "text/csv", name |-> <<"d", ".", "t", "x", "t">>],
     [type |-> "application/vnd.ms-excel", name |-> <<"d">>],
     [type |-> "application/vnd.openxmlformats-officedocument.spreadsheetml.sheet",
      name |-> <<>>],
     [type |-> "application/pdf", name |-> <<"S", ".", "C", "s", "V">>],
     [type |-> "", name |-> <<"b", ".", "x", "l", "s", "x">>],
     [type |-> "", name |-> <<"b", ".", "X", "L", "S">>],
     [type |-> "", name |-> <<"c", "s", "v">>],
     [type |-> "Text/CSV", name |-> <<".", "c", "s", "v", "x">>]}

\* the FileList of a drop or of the file input: empty, or files[0] is the file
FileLists == {<<>>} \cup {<<f>> : f \in Files}

\* Math.round((e.loaded / e.total) * 100)
Percent(loaded, total) == (200 * loaded + total) \div (2 * total)

\* the test of line 123 with <= 300
StatusOk_Inclusive(status) == status >= 200 /\ status <= 300

\* xhr.status >= 200 && xhr.status < 300
StatusOk(status) == status >= 200 /\ status < 300

Statuses == {199, 200, 299, 300}

\* byte totals of the upload bodies
Totals == {2, MaxTotal}

\* handleFiles (lines 103-145), up to xhr.send
HandleFiles(files) ==
    /\ IF files = <<>>
       THEN UNCHANGED <<toastVars, uploadVars, ops>>
       ELSE /\ ops.upload < MaxUploads
            /\ ops' = [ops EXCEPT !.upload = @ + 1]
            /\ IF ~FileAccepted(files[1])
               THEN /\ AddToast([type |-> "error", title |-> "Unsupported file"])
                    /\ UNCHANGED uploadVars
               ELSE /\ \E total \in Totals :
                         xhrs' = Append(xhrs, [loaded |-> 0, total |-> total])
                    /\ uploading' = TRUE
                    /\ UNCHANGED <<progress, toastVars>>
    /\ UNCHANGED <<tableVars, queryVars>>

\* the upload progress listener (lines 116-120); loaded never goes back
UploadProgress(i, lengthComputable, loaded) ==
    /\ i \in DOMAIN xhrs
    /\ loaded \in xhrs[i].loaded .. xhrs[i].total
    /\ xhrs' = [xhrs EXCEPT ![i].loaded = loaded]
    /\ progress' = IF lengthComputable THEN Percent(loaded, xhrs[i].total) ELSE progress
    /\ UNCHANGED <<uploading, toastVars, tableVars, queryVars, ops>>

\* xhr.onload (lines 121-136); parseable: JSON.parse(xhr.responseText) returns
UploadLoad(i, status, parseable) ==
    /\ i \in DOMAIN xhrs
    /\ xhrs' = RemoveAt(xhrs, i)
    /\ uploading' = FALSE
    /\ progress' = 0
    /\ IF StatusOk(status)
       THEN IF parseable
            THEN /\ AddToast([title |-> "Upload complete"])
                 /\ IssueRefresh(NoAwaiter)
            ELSE /\ AddToast([type |-> "error", title |-> "Unexpected response"])
                 /\ UNCHANGED <<loadingTables, tableReqs>>
       ELSE /\ AddToast([type |-> "error", title |-> "Upload failed"])
            /\ UNCHANGED <<loadingTables, tableReqs>>
    /\ UNCHANGED <<tables, selectedTable, selIsListed, schema, loadingSchema,
                   schemaReqs, deleteReqs, queryVars, ops>>

\* xhr.onerror without setProgress(0)
UploadError_NoReset(i) ==
    /\ i \in DOMAIN xhrs
    /\ xhrs' = RemoveAt(xhrs, i)
    /\ uploading' = FALSE
    /\ AddToast([type |-> "error", title |-> "Network error"])
    /\ UNCHANGED <<progress, tableVars, queryVars, ops>>

\* xhr.onerror (lines 137-141)
UploadError(i) ==
    /\ i \in DOMAIN xhrs
    /\ xhrs' = RemoveAt(xhrs, i)
    /\ uploading' = FALSE
    /\ progress' = 0
    /\ AddToast([type |-> "error", title |-> "Network error"])
    /\ UNCHANGED <<tableVars, queryVars, ops>>

(***************************************************************************)
(* TableRegistry (lines 386-428, 465-469).                                 *)
(***************************************************************************)
TableIds == {"A", "B"}

\* a table object is modelled by its id (the listing gives every table an id,
\* so selectedTable.id || selectedTable._id || selectedTable.name is the id)
TableLists == {<<>>, <<"A">>, <<"B">>, <<"A", "B">>}

\* bodies GET /api/tables can answer with: an array, or an object that may
\* carry a tables member
TableBodies ==
    {[shape |-> "array", items |-> l] : l \in TableLists}
        \cup {[shape |-> "object", tables |-> <<"B", "A">>], [shape |-> "object"]}

\* Array.isArray(data) ? data : (data.tables || [])
TablesOf(data) ==
    IF data.shape = "array" THEN data.items
    ELSE IF "tables" \in DOMAIN data THEN data.tables
    ELSE <<>>

\* how a fetch settles: res.ok, !res.ok (throw at lines 390, 404, 418, 440),
\* or a rejected fetch
Outcomes == {"ok", "status", "network"}

\* the body of GET /api/tables/{id}
SchemaOf(id) == [table |-> id]

NullSchema == [table |-> Null]

\* the Refresh button (line 186): refreshTables
RefreshClick ==
    /\ ops.tables < MaxTableOps
    /\ ops' = [ops EXCEPT !.tables = @ + 1]
    /\ IssueRefresh(NoAwaiter)
    /\ UNCHANGED <<toastVars, uploadVars, tables, selectedTable, selIsListed,
                   schema, loadingSchema, schemaReqs, deleteReqs, queryVars>>

\* deleteTable resumed after await refreshTables() (lines 421-424), with the
\* selectedTable its closure captured
AfterRefresh(awaiter) ==
    IF awaiter.by = "delete" /\ awaiter.sel # Null /\ awaiter.sel = awaiter.tbl
    THEN /\ selectedTable' = Null
         /\ schema' = NullSchema
    ELSE UNCHANGED <<selectedTable, schema>>

\* a request in flight has been overtaken when a request issued after it
\* has already been answered with a list; the code keeps no such note
Overtaken(req) == "overtaken" \in DOMAIN req

\* the requests in flight once request i has settled: the older ones are
\* noted as overtaken when it was answered with a list
Settle(reqs, i, outcome) ==
    RemoveAt([k \in DOMAIN reqs |->
                 IF outcome = "ok" /\ k < i
                 THEN [overtaken |-> TRUE] @@ reqs[k]
                 ELSE reqs[k]], i)

\* refreshTables resumed after its fetch (lines 390-397), and then the
\* caller that awaits it
TablesResponse(i, outcome, data) ==
    /\ i \in DOMAIN tableReqs
    /\ tableReqs' = Settle(tableReqs, i, outcome)
    /\ loadingTables' = FALSE
    /\ IF outcome = "ok"
       THEN /\ tables' = TablesOf(data)
            /\ selIsListed' = FALSE
            /\ UNCHANGED toastVars
       ELSE /\ AddToast([type |-> "error", title |-> "Failed to load tables"])
            /\ UNCHANGED <<tables, selIsListed>>
    /\ AfterRefresh(tableReqs[i])
    /\ UNCHANGED <<uploadVars, loadingSchema, schemaReqs, deleteReqs, queryVars, ops>>

\* fetchSchema up to its fetch (lines 400-403)
IssueSchema(id) ==
    /\ loadingSchema' = TRUE
    /\ schemaReqs' = Append(schemaReqs, [id |-> id])

\* a click on a row of the sidebar (line 191): setSelectedTable(t), and the
\* effect of lines 465-469 when the state changed (Object.is)
Select(t) ==
    /\ t \in Range(tables)
    /\ IF selectedTable = t /\ selIsListed
       THEN UNCHANGED vars
       ELSE /\ ops.tables < MaxTableOps
            /\ ops' = [ops EXCEPT !.tables = @ + 1]
            /\ selectedTable' = t
            /\ selIsListed' = TRUE
            /\ IssueSchema(t)
            /\ UNCHANGED <<toastVars, uploadVars, tables, schema, loadingTables,
                           tableReqs, deleteReqs, queryVars>>

\* what fetchSchema does with a body (line 406)
ApplySchema(req) == schema' = SchemaOf(req.id)

\* fetchSchema with an empty catch block
SchemaResponse_Silent(i, outcome) ==
    /\ i \in DOMAIN schemaReqs
    /\ schemaReqs' = RemoveAt(schemaReqs, i)
    /\ loadingSchema' = FALSE
    /\ IF outcome = "ok"
       THEN ApplySchema(schemaReqs[i])
       ELSE UNCHANGED schema
    /\ UNCHANGED <<toastVars, uploadVars, tables, selectedTable, selIsListed,
                   loadingTables, tableReqs, deleteReqs, queryVars, ops>>

\* fetchSchema resumed after its fetch (lines 404-411)
SchemaResponse(i, outcome) ==
    /\ i \in DOMAIN schemaReqs
    /\ schemaReqs' = RemoveAt(schemaReqs, i)
    /\ loadingSchema' = FALSE
    /\ IF outcome = "ok"
       THEN /\ ApplySchema(schemaReqs[i])
            /\ UNCHANGED toastVars
       ELSE /\ AddToast([type |-> "error", title |-> "Failed to load schema"])
            /\ UNCHANGED schema
    /\ UNCHANGED <<uploadVars, tables, selectedTable, selIsListed, loadingTables,
                   tableReqs, deleteReqs, queryVars, ops>>

\* deleteTable without the test of line 415
DeleteTable_NoGate(t, confirmed) ==
    /\ t \in Range(tables)
    /\ ops.tables < MaxTableOps
    /\ ops' = [ops EXCEPT !.tables = @ + 1,
                          !.declined = IF confirmed THEN @ ELSE @ + 1]
    /\ deleteReqs' = Append(deleteReqs, [tbl |-> t, sel |-> selectedTable])
    /\ UNCHANGED <<toastVars, uploadVars, tables, selectedTable, selIsListed,
                   schema, loadingTables, loadingSchema, tableReqs, schemaReqs,
                   queryVars>>

\* the trash button of a row (line 195): deleteTable up to its fetch
\* (lines 414-417); confirmed is the answer to confirm().  ops.declined counts
\* the dialogs the user answered with no.
DeleteTable(t, confirmed) ==
    /\ t \in Range(tables)
    /\ ops.tables < MaxTableOps
    /\ ops' = [ops EXCEPT !.tables = @ + 1,
                          !.declined = IF confirmed THEN @ ELSE @ + 1]
    /\ deleteReqs' = IF confirmed
                     THEN Append(deleteReqs, [tbl |-> t, sel |-> selectedTable])
                     ELSE deleteReqs
    /\ UNCHANGED <<toastVars, uploadVars, tables, selectedTable, selIsListed,
                   schema, loadingTables, loadingSchema, tableReqs, schemaReqs,
                   queryVars>>

\* deleteTable that refreshes the tables after a failed DELETE too
DeleteResponse_AlwaysRefresh(i, outcome) ==
    /\ i \in DOMAIN deleteReqs
    /\ deleteReqs' = RemoveAt(deleteReqs, i)
    /\ IF outcome = "ok"
       THEN AddToast([title |-> "Table deleted"])
       ELSE AddToast([type |-> "error", title |-> "Failed to delete"])
    /\ IssueRefresh([by |-> "delete", tbl |-> deleteReqs[i].tbl,
                     sel |-> deleteReqs[i].sel, cur |-> selectedTable])
    /\ UNCHANGED <<uploadVars, tables, selectedTable, selIsListed, schema,
                   loadingSchema, schemaReqs, queryVars, ops>>

\* deleteTable resumed after its fetch (lines 418-420, 425-427).  The awaiter
\* also notes the table selected at this moment (cur), which the code does
\* not read.
DeleteResponse(i, outcome) ==
    /\ i \in DOMAIN deleteReqs
    /\ deleteReqs' = RemoveAt(deleteReqs, i)
    /\ IF outcome = "ok"
       THEN /\ AddToast([title |-> "Table deleted"])
            /\ IssueRefresh([by |-> "delete", tbl |-> deleteReqs[i].tbl,
                             sel |-> deleteReqs[i].sel, cur |-> selectedTable])
       ELSE /\ AddToast([type |-> "error", title |-> "Failed to delete"])
            /\ UNCHANGED <<loadingTables, tableReqs>>
    /\ UNCHANGED <<uploadVars, tables, selectedTable, selIsListed, schema,
                   loadingSchema, schemaReqs, queryVars, ops>>

(***************************************************************************)
(* QueryRunner and history (lines 371-377, 430-459, 504).                  *)
(* A text is a sequence of characters: " " is white space, a letter is a   *)
(* visible character.                                                      *)
(***************************************************************************)
RECURSIVE TrimStart(_)
TrimStart(s) == IF s # <<>> /\ Head(s) = " " THEN TrimStart(Tail(s)) ELSE s

RECURSIVE TrimEnd(_)
TrimEnd(s) ==
    IF s # <<>> /\ s[Len(s)] = " " THEN TrimEnd(SubSeq(s, 1, Len(s) - 1)) ELSE s

\* String.prototype.trim
Trim(s) == TrimEnd(TrimStart(s))

\* one letter more than the history can hold
Letters == <<"a", "b", "c", "d", "e", "f", "g", "h", "i", "j", "k">>

\* texts the user can type in the query box
Queries == {<<" ">>, <<" ", "a", " ">>, <<Letters[HistoryCap + 1]>>}

RECURSIVE JsonItems(_)
JsonItems(h) ==
    IF h = <<>> THEN <<>>
    ELSE <<"\"">> \o Head(h) \o <<"\"">>
             \o (IF Len(h) > 1 THEN <<",">> ELSE <<>>) \o JsonItems(Tail(h))

\* JSON.stringify of an array of strings (line 446), character by character
JsonStringify(h) == <<"[">> \o JsonItems(h) \o <<"]">>

\* the scan of a JSON array of strings from position i on: cur is the string
\* being read (inStr), acc the strings read so far
RECURSIVE JsonScan(_, _, _, _, _)
JsonScan(text, i, inStr, cur, acc) ==
    IF i > Len(text) THEN acc
    ELSE IF inStr
    THEN IF text[i] = "\""
         THEN JsonScan(text, i + 1, FALSE, <<>>, Append(acc, cur))
         ELSE JsonScan(text, i + 1, TRUE, Append(cur, text[i]), acc)
    ELSE IF text[i] = "\"" THEN JsonScan(text, i + 1, TRUE, <<>>, acc)
    ELSE IF text[i] = "]" THEN acc
    ELSE JsonScan(text, i + 1, FALSE, <<>>, acc)

\* JSON.parse of the text of an array of strings (line 376)
JsonParse(text) == JsonScan(text, 2, FALSE, <<>>, <<>>)

\* the histories lines 444-446 of an earlier session can have stored
StoredHistories ==
    {<< <<"a">>, <<"e">> >>, [i \in 1..HistoryCap |-> <<Letters[i]>>]}

\* the item query_history at startup: absent (the empty text stands for
\* getItem's null), '[]' (line 504), or a stored history
StoredItems == {<<>>, <<"[", "]">>} \cup {JsonStringify(h) : h \in StoredHistories}

\* JSON.parse(localStorage.getItem('query_history') || '[]')   (line 376)
LoadHistory(item) == JsonParse(IF item = <<>> THEN <<"[", "]">> ELSE item)

NullResult == [run |-> <<>>]

\* the body POST /api/query answers {query: text} with
DataFor(text) == [run |-> <<text>>]

\* line 444 without the filter
NewHist_NoFilter(q, h) ==
    LET all == <<q>> \o h
    IN  SubSeq(all, 1, IF Len(all) < HistoryCap THEN Len(all) ELSE HistoryCap)

\* line 444 without the slice
NewHist_NoSlice(q, h) == <<q>> \o SelectSeq(h, LAMBDA x : x # q)

\* [q, ...h.filter((x) => x !== q)].slice(0, 10)   (line 444)
NewHist(q, h) ==
    LET all == <<q>> \o SelectSeq(h, LAMBDA x : x # q)
    IN  SubSeq(all, 1, IF Len(all) < HistoryCap THEN Len(all) ELSE HistoryCap)

\* onChange of the textarea, or a click on an example (lines 237, 246)
SetQuery(q) ==
    /\ q \in Queries
    /\ query' = q
    /\ UNCHANGED <<toastVars, uploadVars, tableVars, running, result, history,
                   storage, queryReqs, downloads, ops>>

\* a click on a history entry (line 504, onPick)
PickHistory(i) ==
    /\ i \in DOMAIN history
    /\ query' = history[i]
    /\ UNCHANGED <<toastVars, uploadVars, tableVars, running, result, history,
                   storage, queryReqs, downloads, ops>>

\* runQuery up to its fetch (lines 430-439); the request keeps the query and
\* history its closure captured, and before: the result held when it was called
RunQuery ==
    IF Trim(query) = <<>>
    THEN UNCHANGED <<running, result, queryReqs, ops>>
    ELSE /\ ops.query < MaxRuns
         /\ ops' = [ops EXCEPT !.query = @ + 1]
         /\ running' = TRUE
         /\ result' = NullResult
         /\ queryReqs' = Append(queryReqs,
                [query |-> query, history |-> history, before |-> result])

\* the Run button (line 252), which is disabled while loading or when the
\* trimmed query is empty
RunClick ==
    /\ ~(running \/ Trim(query) = <<>>)
    /\ RunQuery
    /\ UNCHANGED <<toastVars, uploadVars, tableVars, query, history, storage,
                   downloads>>

\* handleKeySubmit (lines 454-459)
KeySubmit(key, shiftKey) ==
    /\ IF key = "Enter" /\ ~shiftKey
       THEN RunQuery
       ELSE UNCHANGED <<running, result, queryReqs, ops>>
    /\ UNCHANGED <<toastVars, uploadVars, tableVars, query, history, storage,
                   downloads>>

\* runQuery with setRunning(false) at the end of the try block instead of
\* in a finally
QueryResponse_NoFinally(i, outcome) ==
    /\ i \in DOMAIN queryReqs
    /\ queryReqs' = RemoveAt(queryReqs, i)
    /\ IF outcome = "ok"
       THEN /\ running' = FALSE
            /\ result' = DataFor(Trim(queryReqs[i].query))
            /\ AddToast([title |-> "Query completed"])
            /\ history' = NewHist(Trim(queryReqs[i].query), queryReqs[i].history)
            /\ storage' = JsonStringify(history')
       ELSE /\ AddToast([type |-> "error", title |-> "Query failed"])
            /\ UNCHANGED <<running, result, history, storage>>
    /\ UNCHANGED <<uploadVars, tableVars, query, downloads, ops>>

\* runQuery that stores the history it read instead of newHist
QueryResponse_StaleStore(i, outcome) ==
    /\ i \in DOMAIN queryReqs
    /\ queryReqs' = RemoveAt(queryReqs, i)
    /\ running' = FALSE
    /\ IF outcome = "ok"
       THEN /\ result' = DataFor(Trim(queryReqs[i].query))
            /\ AddToast([title |-> "Query completed"])
            /\ history' = NewHist(Trim(queryReqs[i].query), queryReqs[i].history)
            /\ storage' = JsonStringify(queryReqs[i].history)
       ELSE /\ AddToast([type |-> "error", title |-> "Query failed"])
            /\ UNCHANGED <<result, history, storage>>
    /\ UNCHANGED <<uploadVars, tableVars, query, downloads, ops>>

\* runQuery resumed after its fetch (lines 440-451)
QueryResponse(i, outcome) ==
    /\ i \in DOMAIN queryReqs
    /\ queryReqs' = RemoveAt(queryReqs, i)
    /\ running' = FALSE
    /\ IF outcome = "ok"
       THEN /\ result' = DataFor(Trim(queryReqs[i].query))
            /\ AddToast([title |-> "Query completed"])
            /\ history' = NewHist(Trim(queryReqs[i].query), queryReqs[i].history)
            /\ storage' = JsonStringify(history')
       ELSE /\ AddToast([type |-> "error", title |-> "Query failed"])
            /\ UNCHANGED <<result, history, storage>>
    /\ UNCHANGED <<uploadVars, tableVars, query, downloads, ops>>

\* the Clear button of the history panel (line 504), rendered only when the
\* history has items (line 343)
ClearHistory ==
    /\ history # <<>>
    /\ history' = <<>>
    /\ storage' = <<"[", "]">>
    /\ UNCHANGED <<toastVars, uploadVars, tableVars, query, running, result,
                   queryReqs, downloads, ops>>

(***************************************************************************)
(* Results.exportCsv (lines 260-283).  A cell value is null or a string; a  *)
(* row is an object keyed by column name, from which keys can be missing.  *)
(***************************************************************************)
NullCell == [kind |-> "null"]

Str(text) == [kind |-> "string", text |-> text]

\* result.rows || result.data || []   (line 264); the bodies of the model
\* carry no data member
RowsOf(res) == IF "rows" \in DOMAIN res THEN res.rows ELSE <<>>

\* result.columns || (rows[0] ? Object.keys(rows[0]) : [])   (line 265); a
\* body of the model without columns has no rows either
ColsOf(res) == IF "columns" \in DOMAIN res THEN res.columns ELSE <<>>

\* r[c]: undefined when the row has no such key, and v == null holds for
\* undefined as it does for null
CellAt(r, c) == IF c \in DOMAIN r THEN r[c] ELSE NullCell

\* v == null ? '' : String(v)
Stringify(v) == IF v.kind = "null" THEN <<>> ELSE v.text

\* String.prototype.includes, for one character
Includes(s, c) == \E k \in DOMAIN s : s[k] = c

\* s.replace(/"/g, '""')
RECURSIVE DoubleQuotes(_)
DoubleQuotes(s) ==
    IF s = <<>> THEN <<>>
    ELSE (IF Head(s) = "\"" THEN <<"\"", "\"">> ELSE <<Head(s)>>)
             \o DoubleQuotes(Tail(s))

\* the callback of r.map at lines 277-281
CsvCell(v) ==
    LET s == Stringify(v)
    IN  IF Includes(s, ",") \/ Includes(s, "\n") \/ Includes(s, "\"")
        THEN <<"\"">> \o DoubleQuotes(s) \o <<"\"">>
        ELSE s

\* Array.prototype.join with a one-character separator
RECURSIVE Join(_, _)
Join(parts, sep) ==
    IF parts = <<>> THEN <<>>
    ELSE IF Len(parts) = 1 THEN parts[1]
    ELSE parts[1] \o <<sep>> \o Join(Tail(parts), sep)

\* [cols, ...rows.map((r) => cols.map((c) => r[c]))]   (line 276)
CsvArr(res) ==
    LET cols == ColsOf(res)
        rows == RowsOf(res)
    IN  << [j \in 1..Len(cols) |-> Str(cols[j])] >>
            \o [k \in 1..Len(rows) |->
                   [j \in 1..Len(cols) |-> CellAt(rows[k], cols[j])]]

\* the text of line 277: cells joined by commas, rows by newlines
CsvText(res) ==
    LET arr == CsvArr(res)
    IN  Join([k \in 1..Len(arr) |->
                 Join([j \in 1..Len(arr[k]) |-> CsvCell(arr[k][j])], ",")], "\n")

\* the Export CSV button (line 306), rendered when there is a result
ExportCsv ==
    /\ result # NullResult
    /\ Len(downloads) < MaxExports
    /\ downloads' = Append(downloads, CsvText(result))
    /\ UNCHANGED <<toastVars, uploadVars, tableVars, query, running, result,
                   history, storage, queryReqs, ops>>

\* cell texts over x, comma, double quote and newline
CellTexts ==
    {<<>>, <<"x">>, <<",">>, <<"\"">>, <<"\n">>, <<"x", "\"">>,
     <<"\"", "\"">>, <<",", "\n">>}

CellValues == {NullCell} \cup {Str(t) : t \in CellTexts}

\* column lists of a result: one column, or two, the second with a comma in
\* its name
ColumnLists == {<< <<"c">> >>, << <<"c">>, <<"d", ",">> >>}

\* the row objects over a column list: any of the keys can be missing
RowObjects(cols) == UNION {[D -> CellValues] : D \in SUBSET Range(cols)}

\* no row, one row, or two rows of a one-column result
RowLists(cols) ==
    {<<>>} \cup {<<r>> : r \in RowObjects(cols)}
        \cup (IF Len(cols) = 1
              THEN {<<r, q>> : r \in RowObjects(cols), q \in RowObjects(cols)}
              ELSE {})

\* bodies POST /api/query can answer with: columns and rows
ExportBodies ==
    UNION {{[columns |-> cols, rows |-> rs] : rs \in RowLists(cols)} :
              cols \in ColumnLists}

(***************************************************************************)
(* The state after the first render and its effects: the history is read   *)
(* from storage (line 375) and the mount effect has called refreshTables    *)
(* (lines 461-463).                                                        *)
(***************************************************************************)
InitWith(item) ==
    /\ toasts = <<>>
    /\ timers = {}
    /\ nextId = 1
    /\ uploading = FALSE
    /\ progress = 0
    /\ xhrs = <<>>
    /\ tables = <<>>
    /\ selectedTable = Null
    /\ selIsListed = FALSE
    /\ schema = NullSchema
    /\ loadingTables = TRUE
    /\ loadingSchema = FALSE
    /\ tableReqs = <<NoAwaiter>>
    /\ schemaReqs = <<>>
    /\ deleteReqs = <<>>
    /\ query = <<>>
    /\ running = FALSE
    /\ result = NullResult
    /\ storage = item
    /\ history = LoadHistory(item)
    /\ queryReqs = <<>>
    /\ downloads = <<>>
    /\ ops = [upload |-> 0, tables |-> 0, query |-> 0, declined |-> 0]

Init == \E item \in StoredItems : InitWith(item)

\* the first visit: nothing is stored yet
FirstVisit == InitWith(<<>>)

\* a first visit in which the query k was run and answered with body, shown
\* in the results panel (lines 442-446)
ShownResult(body) ==
    /\ toasts = <<MakeToast(1, [title |-> "Query completed"])>>
    /\ timers = {[id |-> 1, age |-> 0]}
    /\ nextId = 2
    /\ uploading = FALSE
    /\ progress = 0
    /\ xhrs = <<>>
    /\ tables = <<>>
    /\ selectedTable = Null
    /\ selIsListed = FALSE
    /\ schema = NullSchema
    /\ loadingTables = TRUE
    /\ loadingSchema = FALSE
    /\ tableReqs = <<NoAwaiter>>
    /\ schemaReqs = <<>>
    /\ deleteReqs = <<>>
    /\ query = <<"k">>
    /\ running = FALSE
    /\ result = body
    /\ history = NewHist(<<"k">>, <<>>)
    /\ storage = JsonStringify(history)
    /\ queryReqs = <<>>
    /\ downloads = <<>>
    /\ ops = [upload |-> 0, tables |-> 0, query |-> 1, declined |-> 0]

InitExport == \E body \in ExportBodies : ShownResult(body)

UserDismisses == \E id \in 1..(nextId - 1) : Dismiss(id)

TimerFires == \E id \in 1..(nextId - 1) : TimerFire(id)

NextToasts == UserDismisses \/ TimerFires \/ Tick

UploadStarts == \E files \in FileLists : HandleFiles(files)

UploadProgresses ==
    \E i \in DOMAIN xhrs, lc \in BOOLEAN, loaded \in 0..MaxTotal :
        UploadProgress(i, lc, loaded)

UploadLoads ==
    \E i \in DOMAIN xhrs, status \in Statuses, parseable \in BOOLEAN :
        UploadLoad(i, status, parseable)

UploadErrors == \E i \in DOMAIN xhrs : UploadError(i)

NextUpload == UploadStarts \/ UploadProgresses \/ UploadLoads \/ UploadErrors

RefreshSettles ==
    \E i \in DOMAIN tableReqs, outcome \in Outcomes, data \in TableBodies :
        TablesResponse(i, outcome, data)

UserSelects == \E t \in TableIds : Select(t)

SchemaSettles ==
    \E i \in DOMAIN schemaReqs, outcome \in Outcomes : SchemaResponse(i, outcome)

UserDeletes == \E t \in TableIds, confirmed \in BOOLEAN : DeleteTable(t, confirmed)

DeleteSettles ==
    \E i \in DOMAIN deleteReqs, outcome \in Outcomes : DeleteResponse(i, outcome)

NextTables ==
    \/ RefreshClick
    \/ RefreshSettles
    \/ UserSelects
    \/ SchemaSettles
    \/ UserDeletes
    \/ DeleteSettles

UserTypes == \E q \in Queries : SetQuery(q)

\* the user picks the newest, the fifth or the oldest entry
UserPicks == \E i \in {1, 5, Len(history)} : PickHistory(i)

UserPressesKey ==
    \E key \in {"Enter", "a"}, shiftKey \in BOOLEAN : KeySubmit(key, shiftKey)

QuerySettles ==
    \E i \in DOMAIN queryReqs, outcome \in Outcomes : QueryResponse(i, outcome)

NextQuery ==
    \/ UserTypes
    \/ UserPicks
    \/ RunClick
    \/ UserPressesKey
    \/ QuerySettles
    \/ ClearHistory

Next == NextToasts \/ NextUpload \/ NextTables \/ NextQuery \/ ExportCsv

\* the whole workspace
Spec == Init /\ [][Next]_vars

\* a first visit in which the user works with the upload box only
SpecUpload == FirstVisit /\ [][NextUpload \/ RefreshSettles]_vars

\* a first visit in which the user works with the tables sidebar only
SpecTables == FirstVisit /\ [][NextTables]_vars

\* the user works with the query box and the history panel only
SpecQuery == Init /\ [][NextQuery]_vars

\* a first visit in which the user hands files over and watches the
\* notifications, while time passes
NextNotify == NextToasts \/ UploadStarts \/ UploadLoads \/ UploadErrors

\* time passes, and the event loop runs a timer callback that is due
SpecToasts ==
    FirstVisit /\ [][NextNotify]_vars /\ WF_vars(Tick) /\ WF_vars(TimerFires)

\* a result is shown and the user exports it
SpecExport == InitExport /\ [][ExportCsv]_vars

\* the operations performed so far, over all the panels
SessionOps(o) == o.upload + o.tables + o.query

\* a short first visit that goes through the upload box, the tables sidebar
\* and the query box (upload progress events left aside)
NextSession ==
    /\ UploadStarts \/ UploadLoads \/ UploadErrors \/ NextTables \/ NextQuery
    /\ SessionOps(ops') <= MaxSessionOps

SpecSession == FirstVisit /\ [][NextSession]_vars

\* the short first visit, in which every request that was issued eventually
\* gets a response or a transport failure
SpecSettling ==
    /\ SpecSession
    /\ WF_vars(UploadLoads \/ UploadErrors)
    /\ WF_vars(RefreshSettles)
    /\ WF_vars(SchemaSettles)
    /\ WF_vars(DeleteSettles)
    /\ WF_vars(QuerySettles)

(***************************************************************************)
(* Properties.                                                             *)
(***************************************************************************)
HasToast(title) == \E i \in DOMAIN toasts : toasts[i].title = title

\* C1: schema race safety.  When every schema fetch issued so far has
\* resolved, and resolved successfully, the cached schema is the schema of
\* the table selected last, whatever the order the responses arrived in: a
\* response for a superseded selection is not what the cache ends up with.
\* (Under SpecTables no toast is ever removed, so the absence of a "Failed to
\* load schema" toast says that every schema fetch succeeded.)
C1_SchemaRaceSafe ==
    (/\ schemaReqs = <<>>
     /\ selectedTable # Null
     /\ ~HasToast("Failed to load schema"))
        => schema = SchemaOf(selectedTable)

\* C2: in every reachable state the cached schema is absent or is the schema
\* of the currently selected table (so it is absent when nothing is selected).
C2_SchemaMatchesSelection ==
    \/ schema = NullSchema
    \/ selectedTable # Null /\ schema = SchemaOf(selectedTable)

\* C3: at most one query request is in flight at any time.
C3_OneQueryInFlight == Len(queryReqs) <= 1

\* C4: when a query run fails (non-2xx status or transport error) the result
\* after the failure is the result that was held before the run was submitted
\* (it is not cleared), and a failure notification is raised.  Stated for the
\* runs that were submitted while a result was held: the others have no
\* result to lose.
C4_FailureKeepsResult ==
    [][\A i \in DOMAIN queryReqs, outcome \in {"status", "network"} :
          (QueryResponse(i, outcome) /\ queryReqs[i].before # NullResult) =>
              /\ result' = queryReqs[i].before
              /\ Len(toasts') = Len(toasts) + 1
              /\ toasts'[Len(toasts')].type = "error"]_vars

\* C5: in every reachable state the history holds at most 10 entries and no
\* two entries are the same text.
C5_HistoryBoundedDistinct ==
    /\ Len(history) <= HistoryCap
    /\ \A i, j \in DOMAIN history : i # j => history[i] # history[j]

\* a failed and a successful run have completed and the history is full
C5_Witness ==
    /\ HasToast("Query completed")
    /\ HasToast("Query failed")
    /\ Len(history) = HistoryCap

\* the reference most-recent-first LRU insert, by position: an entry that is
\* present moves to the front and the others keep their order; an absent one
\* is put in front, and the last entry goes when the history is full
LruInsert(q, h) ==
    IF \E k \in DOMAIN h : h[k] = q
    THEN LET k == CHOOSE k \in DOMAIN h : h[k] = q
         IN  <<q>> \o SubSeq(h, 1, k - 1) \o SubSeq(h, k + 1, Len(h))
    ELSE IF Len(h) >= HistoryCap
    THEN <<q>> \o SubSeq(h, 1, HistoryCap - 1)
    ELSE <<q>> \o h

\* C6: the history a successful run writes is the reference LRU insert of
\* its trimmed text into the history the run read.
C6_InsertIsLru ==
    [][\A i \in DOMAIN queryReqs :
          QueryResponse(i, "ok") =>
              history' = LruInsert(Trim(queryReqs[i].query), queryReqs[i].history)]_vars

\* an absent text was inserted into a full history (the last entry went) and
\* then a present one was moved to the front
C6_Witness ==
    /\ Len(history) = HistoryCap
    /\ history[1] = <<"e">>
    /\ history[2] = <<Letters[HistoryCap + 1]>>
    /\ history[HistoryCap] = <<Letters[HistoryCap - 1]>>

\* the ids a behaviour of SpecToasts can draw: a file handed over raises at
\* most one notification
NotifyIds == 1..MaxUploads

\* C7: notification lifecycle.  A notification enters the queue once, under
\* an id no notification had before (so one that left never reappears); it
\* leaves by a manual dismissal or by its timer, 6000 ms after it was
\* created; and every notification in the queue eventually leaves it.
C7_NotificationLifecycle ==
    /\ [][\A id \in NotifyIds :
            /\ (id \notin ToastIds /\ id \in ToastIds') =>
                   /\ id = nextId
                   /\ nextId' = nextId + 1
                   /\ toasts' = Append(toasts, toasts'[Len(toasts')])
            /\ (id \in ToastIds /\ id \notin ToastIds') =>
                   \/ Dismiss(id)
                   \/ /\ TimerFire(id)
                      /\ \E tm \in timers :
                            tm.id = id /\ tm.age * TickMs = ToastTimeoutMs]_vars
    /\ \A id \in NotifyIds : (id \in ToastIds) ~> (id \notin ToastIds)

\* one notification was dismissed by hand before its expiry, and another one,
\* never dismissed, has reached its expiry
C7_Witness ==
    /\ \E tm \in timers : tm.id \notin ToastIds /\ tm.age * TickMs < ToastTimeoutMs
    /\ \E tm \in timers : tm.id \in ToastIds /\ tm.age * TickMs = ToastTimeoutMs

\* the upper-case form of a letter of the accepted extensions
UpperOf(c) ==
    CASE c = "c" -> "C"
      [] c = "s" -> "S"
      [] c = "v" -> "V"
      [] c = "x" -> "X"
      [] c = "l" -> "L"
      [] OTHER -> c

\* name ends in ext, letter case ignored, compared position by position
EndsWithIgnoringCase(name, ext) ==
    /\ Len(name) >= Len(ext)
    /\ \A k \in 1..Len(ext) :
          LET c == name[Len(name) - Len(ext) + k]
          IN  c = ext[k] \/ c = UpperOf(ext[k])

\* the acceptance rule as the specification words it
AcceptedBySpec(file) ==
    \/ file.type = "text/csv"
    \/ file.type = "application/vnd.ms-excel"
    \/ file.type = "application/vnd.openxmlformats-officedocument.spreadsheetml.sheet"
    \/ \E ext \in {<<".", "c", "s", "v">>, <<".", "x", "l", "s", "x">>,
                   <<".", "x", "l", "s">>} : EndsWithIgnoringCase(file.name, ext)

\* C8: upload validation.  A file handed over is accepted (one upload request
\* is sent) if and only if its MIME type is one of the three accepted types
\* or its name ends in .csv, .xlsx or .xls whatever the letter case; a
\* rejected file sends no request, leaves the upload status and progress as
\* they were and raises exactly one error notification.
C8_UploadValidation ==
    [][\A f \in Files :
          HandleFiles(<<f>>) =>
              IF AcceptedBySpec(f)
              THEN /\ Len(xhrs') = Len(xhrs) + 1
                   /\ toasts' = toasts
              ELSE /\ xhrs' = xhrs
                   /\ uploading' = uploading
                   /\ progress' = progress
                   /\ tableReqs' = tableReqs
                   /\ Len(toasts') = Len(toasts) + 1
                   /\ SubSeq(toasts', 1, Len(toasts)) = toasts
                   /\ toasts'[Len(toasts')].type = "error"]_vars

\* a file was rejected while an accepted one was being uploaded
C8_Witness ==
    /\ Len(xhrs) = 1
    /\ uploading
    /\ HasToast("Unsupported file")
    /\ toasts[Len(toasts)].title = "Unsupported file"

\* C9: progress monotonicity.  The progress percent stays within 0..100; a
\* step that starts an upload leaves it at 0; and any other step that leaves
\* an upload in flight does not decrease it.
C9_ProgressMonotone ==
    [][/\ progress' \in 0..100
       /\ Len(xhrs') > Len(xhrs) => progress' = 0
       /\ (Len(xhrs') <= Len(xhrs) /\ xhrs' # <<>>) => progress' >= progress]_vars

\* C10: upload completion effects.  An upload that ends with a 2xx status and
\* a parseable body raises exactly one success notification and issues
\* exactly one table-list request; one that ends with another status, with an
\* unparseable body or with a transport failure issues no table-list request
\* and raises one error notification.
C10_UploadCompletion ==
    [][\A i \in DOMAIN xhrs :
          /\ \A status \in Statuses, parseable \in BOOLEAN :
                UploadLoad(i, status, parseable) =>
                    /\ Len(toasts') = Len(toasts) + 1
                    /\ SubSeq(toasts', 1, Len(toasts)) = toasts
                    /\ IF status \in 200..299 /\ parseable
                       THEN /\ toasts'[Len(toasts')].type = "success"
                            /\ Len(tableReqs') = Len(tableReqs) + 1
                       ELSE /\ toasts'[Len(toasts')].type = "error"
                            /\ tableReqs' = tableReqs
          /\ UploadError(i) =>
                /\ Len(toasts') = Len(toasts) + 1
                /\ SubSeq(toasts', 1, Len(toasts)) = toasts
                /\ toasts'[Len(toasts')].type = "error"
                /\ tableReqs' = tableReqs]_vars

\* one upload ended well and its table-list request is out, next to the one
\* of the startup; another ended with a body that does not parse
C10_Witness ==
    /\ HasToast("Upload complete")
    /\ HasToast("Unexpected response")
    /\ Len(tableReqs) = 2
    /\ xhrs = <<>>

\* C11: deletion side effect.  When deleteTable finishes after a successful
\* DELETE, selection and cached schema are cleared if the deleted table is the
\* selected one and are left as they are otherwise, also when the user
\* changed the selection while the DELETE request was in flight.  Stated for
\* the deletions during whose table refresh the selection did not change, so
\* that the table selected when the deletion completes is the same whether
\* completion is taken at the DELETE response or at the end of deleteTable.
C11_DeletionSideEffect ==
    [][\A i \in DOMAIN tableReqs, outcome \in Outcomes, data \in TableBodies :
          (/\ TablesResponse(i, outcome, data)
           /\ tableReqs[i].by = "delete"
           /\ tableReqs[i].cur = selectedTable) =>
              IF selectedTable = tableReqs[i].tbl
              THEN selectedTable' = Null /\ schema' = NullSchema
              ELSE selectedTable' = selectedTable /\ schema' = schema]_vars

\* C12: deletion gate.  A step puts a DELETE request in flight only when the
\* user answered the confirmation with yes; a deletion the user declines
\* sends no request of any kind, raises no notification and leaves tables,
\* selection and schema as they were.
C12_DeletionGate ==
    [][/\ Len(deleteReqs') > Len(deleteReqs) =>
              \E t \in TableIds : DeleteTable(t, TRUE)
       /\ \A t \in TableIds :
              DeleteTable(t, FALSE) =>
                  /\ deleteReqs' = deleteReqs
                  /\ tableReqs' = tableReqs
                  /\ schemaReqs' = schemaReqs
                  /\ toasts' = toasts
                  /\ tables' = tables
                  /\ selectedTable' = selectedTable
                  /\ schema' = schema]_vars

\* the user declined one deletion and confirmed another, whose request is out
C12_Witness ==
    /\ ops.declined = 1
    /\ Len(deleteReqs) = 1
    /\ selectedTable # Null

\* the number of error notifications in a queue
ErrorCount(ts) == Cardinality({i \in DOMAIN ts : ts[i].type = "error"})

\* the step appends one notification, of type error, to the queue
OneMoreError ==
    /\ Len(toasts') = Len(toasts) + 1
    /\ SubSeq(toasts', 1, Len(toasts)) = toasts
    /\ toasts'[Len(toasts')].type = "error"

\* the step raises no error notification
NoNewError == ErrorCount(toasts') = ErrorCount(toasts)

\* C13: every failed operation raises exactly one error notification, and an
\* operation that succeeds raises none.  The operations and their failures:
\* table refresh, schema fetch, table deletion and query run (non-2xx status
\* or rejected fetch), a file rejected by its type, and an upload that ends
\* with a non-2xx status, a transport failure or a body that does not parse.
\* No failure escapes its operation: whatever way a request in flight
\* settles, the operation that awaits it has a continuation that runs.
C13_OneErrorPerFailure ==
    /\ [][/\ \A i \in DOMAIN tableReqs, outcome \in Outcomes, data \in TableBodies :
              TablesResponse(i, outcome, data) =>
                  IF outcome = "ok" THEN NoNewError ELSE OneMoreError
          /\ \A i \in DOMAIN schemaReqs, outcome \in Outcomes :
              SchemaResponse(i, outcome) =>
                  IF outcome = "ok" THEN NoNewError ELSE OneMoreError
          /\ \A i \in DOMAIN deleteReqs, outcome \in Outcomes :
              DeleteResponse(i, outcome) =>
                  IF outcome = "ok" THEN NoNewError ELSE OneMoreError
          /\ \A i \in DOMAIN queryReqs, outcome \in Outcomes :
              QueryResponse(i, outcome) =>
                  IF outcome = "ok" THEN NoNewError ELSE OneMoreError
          /\ \A f \in Files :
              HandleFiles(<<f>>) =>
                  IF Len(xhrs') > Len(xhrs) THEN NoNewError ELSE OneMoreError
          /\ \A i \in DOMAIN xhrs :
              /\ \A status \in Statuses, parseable \in BOOLEAN :
                    UploadLoad(i, status, parseable) =>
                        IF status \in 200..299 /\ parseable
                        THEN NoNewError ELSE OneMoreError
              /\ UploadError(i) => OneMoreError]_vars
    /\ [](/\ \A i \in DOMAIN tableReqs, outcome \in Outcomes :
               ENABLED TablesResponse(i, outcome, [shape |-> "object"])
          /\ \A i \in DOMAIN schemaReqs, outcome \in Outcomes :
               ENABLED SchemaResponse(i, outcome)
          /\ \A i \in DOMAIN deleteReqs, outcome \in Outcomes :
               ENABLED DeleteResponse(i, outcome)
          /\ \A i \in DOMAIN queryReqs, outcome \in Outcomes :
               ENABLED QueryResponse(i, outcome)
          /\ \A i \in DOMAIN xhrs :
               /\ \A status \in Statuses, parseable \in BOOLEAN :
                     ENABLED UploadLoad(i, status, parseable)
               /\ ENABLED UploadError(i))

\* the startup refresh has failed, and then a query run
C13_Witness ==
    /\ Len(toasts) = 2
    /\ toasts[1].title = "Failed to load tables"
    /\ toasts[2].title = "Query failed"
    /\ ErrorCount(toasts) = 2

\* a standard reader of comma-separated values (RFC 4180, records ended by
\* a newline): fields are separated by commas; a field that starts with a
\* double quote runs to its closing quote, a doubled quote inside it standing
\* for one quote; a newline outside quotes ends the record; the line break
\* after the last record is optional, so a text that ends with a newline has
\* no further record after it.  mode is "start" (at the start of a field),
\* "plain", "quoted" or "closing" (a quote was read inside a quoted field).
RECURSIVE CsvScan(_, _, _, _, _, _)
CsvScan(text, i, mode, field, record, records) ==
    IF i > Len(text)
    THEN IF mode = "start" /\ record = <<>>
         THEN records
         ELSE Append(records, Append(record, field))
    ELSE LET c == text[i]
         IN  IF mode = "quoted"
             THEN IF c = "\""
                  THEN CsvScan(text, i + 1, "closing", field, record, records)
                  ELSE CsvScan(text, i + 1, "quoted", Append(field, c), record, records)
             ELSE IF c = "\"" /\ mode = "start"
             THEN CsvScan(text, i + 1, "quoted", field, record, records)
             ELSE IF c = "\"" /\ mode = "closing"
             THEN CsvScan(text, i + 1, "quoted", Append(field, c), record, records)
             ELSE IF c = ","
             THEN CsvScan(text, i + 1, "start", <<>>, Append(record, field), records)
             ELSE IF c = "\n"
             THEN CsvScan(text, i + 1, "start", <<>>, <<>>,
                          Append(records, Append(record, field)))
             ELSE CsvScan(text, i + 1, "plain", Append(field, c), record, records)

CsvRead(text) == CsvScan(text, 1, "start", <<>>, <<>>, <<>>)

\* the header row followed by the rows, every cell as its string
StringGrid(res) ==
    LET arr == CsvArr(res)
    IN  [k \in 1..Len(arr) |-> [j \in 1..Len(arr[k]) |-> Stringify(arr[k][j])]]

\* C14: CSV export round trip.  For a result with columns and rows whose
\* cells are strings over an alphabet with comma, double quote and newline
\* (absent and null cells counting as the empty string), a standard reader
\* applied to the exported text gives back the header row followed by the
\* rows, each cell equal to the original cell's string.
C14_CsvRoundTrip ==
    [][ExportCsv => CsvRead(downloads'[Len(downloads')]) = StringGrid(result)]_vars

\* C15: every successful run is recorded without losing what was recorded
\* meanwhile.  When a run of trimmed text q succeeds, the history becomes the
\* LRU insert of q into the history as it is just before that completion, so
\* what happened to the history between the run's submission and its
\* completion (another run recorded, the history cleared) is kept.
C15_RunsNotLost ==
    [][\A i \in DOMAIN queryReqs :
          QueryResponse(i, "ok") =>
              history' = LruInsert(Trim(queryReqs[i].query), history)]_vars

\* C16: persistence consistency.  After a successful query and after a clear
\* of the history, what the item query_history of the storage reads back to
\* is the in-memory history (empty, both, after a clear); a failed query
\* changes neither the in-memory history nor the stored item.
C16_PersistenceConsistent ==
    [][/\ \A i \in DOMAIN queryReqs :
              /\ QueryResponse(i, "ok") => LoadHistory(storage') = history'
              /\ \A outcome \in {"status", "network"} :
                     QueryResponse(i, outcome) =>
                         history' = history /\ storage' = storage
       /\ ClearHistory => history' = <<>> /\ LoadHistory(storage') = <<>>]_vars

\* a query succeeded, the history was cleared after it, and a query failed
C16_Witness ==
    /\ HasToast("Query completed")
    /\ HasToast("Query failed")
    /\ history = <<>>
    /\ storage = <<"[", "]">>

\* C17: a manual dismissal cancels the pending expiry.  A removal timer is
\* pending only for a notification that is still in the queue: once a
\* notification was dismissed by hand, no timer for its id remains, so none
\* fires later.
C17_DismissCancelsTimer == \A tm \in timers : tm.id \in ToastIds

\* C18: at most one upload request is in flight at any time.
C18_OneUploadInFlight == Len(xhrs) <= 1

\* C19: after every terminal outcome of an upload (2xx with a parseable
\* body, 2xx with an unparseable body, non-2xx, transport failure) the
\* progress percent is 0 and the upload status is idle; and so they are
\* whenever no upload is in flight.
C19_TerminalResets ==
    /\ [][\A i \in DOMAIN xhrs :
            (\/ UploadError(i)
             \/ \E status \in Statuses, parseable \in BOOLEAN :
                    UploadLoad(i, status, parseable))
                => progress' = 0 /\ ~uploading']_vars
    /\ [](xhrs = <<>> => progress = 0 /\ ~uploading)

\* one upload has ended with a non-2xx status and another with a transport
\* failure
C19_Witness ==
    /\ HasToast("Upload failed")
    /\ HasToast("Network error")
    /\ xhrs = <<>>
    /\ progress = 0
    /\ ~uploading

\* C20: state unchanged on registry failure.  A failed refreshTables leaves
\* the cached table list as it was; a failed fetchSchema leaves the cached
\* schema as it was; a failed deleteTable leaves table list, selection and
\* schema as they were and issues no table refresh.  (A failed fetch has no
\* body to read, so the body handed to TablesResponse does not matter.)
C20_FailureKeepsRegistry ==
    [][\A outcome \in {"status", "network"} :
          /\ \A i \in DOMAIN tableReqs :
                TablesResponse(i, outcome, [shape |-> "object"]) => tables' = tables
          /\ \A i \in DOMAIN schemaReqs :
                SchemaResponse(i, outcome) => schema' = schema
          /\ \A i \in DOMAIN deleteReqs :
                DeleteResponse(i, outcome) =>
                    /\ tables' = tables
                    /\ selectedTable' = selectedTable
                    /\ schema' = schema
                    /\ tableReqs' = tableReqs]_vars

\* a schema fetch, a table refresh and a deletion have failed, with tables
\* listed and one of them selected
C20_Witness ==
    /\ HasToast("Failed to load schema")
    /\ HasToast("Failed to load tables")
    /\ HasToast("Failed to delete")
    /\ tables # <<>>
    /\ selectedTable # Null

\* C21: table-list refreshes are generation-guarded.  When table-list
\* requests are outstanding at once, the answer of a request that was issued
\* before one already answered with a list does not replace the cached list,
\* so that once all have resolved the list is the answer to the request
\* issued last among those answered, whatever the order of arrival.
C21_RefreshGenerationGuarded ==
    [][\A i \in DOMAIN tableReqs, data \in TableBodies :
          (TablesResponse(i, "ok", data) /\ Overtaken(tableReqs[i])) =>
              tables' = tables]_vars

\* C22: busy flags track outstanding requests.  In every reachable state
\* running is true exactly when a query request is outstanding, and
\* loadingSchema is true exactly when a schema fetch is outstanding.
C22_BusyFlagsTrackRequests ==
    /\ running <=> queryReqs # <<>>
    /\ loadingSchema <=> schemaReqs # <<>>

\* C23: every started operation terminates back to idle.  Given that every
\* request issued eventually gets a response or a transport failure, a query
\* run eventually leaves running, a schema fetch and a table refresh
\* eventually clear their loading flags and an upload eventually returns to
\* idle; and no outcome leaves a flag on: a flag is off whenever no request
\* of its kind is outstanding.
C23_OperationsTerminate ==
    /\ running ~> ~running
    /\ loadingSchema ~> ~loadingSchema
    /\ loadingTables ~> ~loadingTables
    /\ uploading ~> ~uploading
    /\ [](/\ queryReqs = <<>> => ~running
          /\ schemaReqs = <<>> => ~loadingSchema
          /\ tableReqs = <<>> => ~loadingTables
          /\ xhrs = <<>> => ~uploading)

\* the startup refresh has failed and a query run has succeeded, and every
\* flag is off again
C23_Witness ==
    /\ HasToast("Failed to load tables")
    /\ HasToast("Query completed")
    /\ ~running
    /\ ~loadingTables
    /\ ~loadingSchema
    /\ ~uploading

====
